---- MODULE Spec2Model ----
(***************************************************************************)
(* WebMapServiceCatalogItem and its GetCapabilitiesStratum                 *)
(* (src/lib/ReactViews/MobileModalWindow.jsx, lines 74-483).               *)
(*                                                                         *)
(* JavaScript values are modelled as records so that undefined, strings    *)
(* and objects can be compared: undefined is [undef |-> TRUE], a string is *)
(* [str |-> <<tokens>>], an array is [arr |-> <<elements>>].  A string is  *)
(* a sequence of tokens; the token "," is the comma character.             *)
(*                                                                         *)
(* The item is observed by a reaction (the renderer reading mapItems), so  *)
(* every computed value is re-evaluated at the end of each mobx action;    *)
(* the transformer cache of _createImageryProvider is therefore part of    *)
(* the state and is refreshed by every action.                             *)
(*                                                                         *)
(* The React component MobileModalWindow (lines 12-72) is modelled over    *)
(* the view state and the now-viewing list it is given as props.           *)
(***************************************************************************)
EXTENDS Integers, Sequences, FiniteSets, TLC

VARIABLES url, layers, opacity, show, isLoading, capabilities, calls,
          lastSettled, transformerCache, nextInstance, callers,
          Base, applied, traits,
          mobileView, modalVisible, nowViewingItems, rendered, lastMethod

\* The trait schema under composition (src/lib/Traits/mixGroupTraits.ts).
traitVars == <<Base, applied, traits>>

\* MobileModalWindow: props.viewState.mobileView and .modalVisible, the
\* length of props.terria.nowViewing.items, the output of the last render,
\* and the method of the component or of its props that ran last.
modalVars == <<mobileView, modalVisible, nowViewingItems, rendered, lastMethod>>

vars == <<url, layers, opacity, show, isLoading, capabilities, calls,
          lastSettled, transformerCache, nextInstance, callers, traitVars, modalVars>>

\* ---- bounds ----
MaxLoads == 3
MaxInstances == 4
MaxDerivedLoads == 2

\* ---- JavaScript values ----
Undefined == [undef |-> TRUE]
Str(s) == [str |-> s]
Arr(a) == [arr |-> a]
Bool(b) == [bool |-> b]
IsString(v) == "str" \in DOMAIN v
IsArray(v) == "arr" \in DOMAIN v
Truthy(v) == v # Undefined /\ (IsString(v) => v.str # <<>>)

\* ---- inputs ----
Urls == {Undefined, Str(<<"u1">>)}
LayersValues == {Undefined, Str(<<"a">>), Str(<<"a", ",", "b">>), Str(<<"c">>)}
DocNames == {"d1", "d2"}
WideDocNames == {"d1", "d2", "d3"}
\* Layer lists for the derived properties: unset, empty, one or several
\* names, names no document has, a repeated name, an array, and a name
\* that is a property of Object.prototype.
WideLayersValues ==
    {Undefined, Str(<<>>), Str(<<"a">>), Str(<<"b">>), Str(<<"c">>),
     Str(<<"a", ",", "b">>), Str(<<"b", ",", "a">>), Str(<<"c", ",", "a">>),
     Str(<<"z", ",", "b">>), Str(<<"a", ",", "a">>), Str(<<"a", ",">>),
     Arr(<<Str(<<"b">>), Str(<<"c">>)>>), Str(<<"toString">>)}
Opacities == {8, 3}
Shows == {Bool(TRUE), Bool(FALSE), Undefined}

\* ---- the capabilities document (WebMapServiceCapabilities) ----
\* A legend of a style: <LegendURL><Format/><OnlineResource xlink:href/>.
Legend(href, format) == [OnlineResource |-> [href |-> href], Format |-> Str(<<format>>)]

Style(name, legendURL) ==
    [Name |-> Str(<<name>>), Title |-> Str(<<name, " title">>), Abstract |-> Undefined,
     LegendURL |-> legendURL]

\* d1: a root layer with one style, and under it layer a (own styles, one
\* with two legends, one with none) and layer b (stock GeoServer abstract,
\* no style of its own).  d2: layer b (no abstract, a legend without
\* OnlineResource) and layer c (empty abstract, no bounding box).  d3: layer
\* a alone, on a service with the stock abstract.
DocLayers(doc) ==
    CASE doc = "d1" ->
           {[Name |-> Str(<<"root">>), Title |-> Str(<<"Root">>), Abstract |-> Undefined,
             bbox |-> 9, parent |-> Undefined,
             Style |-> <<Style("s0", Legend(Str(<<"http://x/root">>), "image/png"))>>],
            [Name |-> Str(<<"a">>), Title |-> Str(<<"A">>), Abstract |-> Str(<<"about a">>),
             bbox |-> 1, parent |-> Str(<<"root">>),
             Style |-> <<Style("s1", Arr(<<Legend(Str(<<"http://x/leg", "%20", "a">>), "image/png"),
                                           Legend(Str(<<"http://x/other">>), "image/gif")>>)),
                         Style("s2", Undefined)>>],
            [Name |-> Str(<<"b">>), Title |-> Str(<<"B">>),
             Abstract |-> Str(<<"A compliant implementation of WMS", " plus most of the WMS 1.3.0">>),
             bbox |-> 2, parent |-> Str(<<"root">>),
             Style |-> <<>>]}
      [] doc = "d2" ->
           {[Name |-> Str(<<"b">>), Title |-> Str(<<"B2">>), Abstract |-> Undefined,
             bbox |-> 3, parent |-> Undefined,
             Style |-> <<Style("s3", [OnlineResource |-> Undefined, Format |-> Str(<<"image/png">>)])>>],
            [Name |-> Str(<<"c">>), Title |-> Str(<<"C">>), Abstract |-> Str(<<>>),
             bbox |-> 0, parent |-> Undefined,
             Style |-> <<Style("s4", Legend(Str(<<"http://x/c">>), "image/png")),
                         Style("s5", Arr(<<>>))>>]}
      [] OTHER ->
           {[Name |-> Str(<<"a">>), Title |-> Str(<<"A3">>), Abstract |-> Str(<<"about a3">>),
             bbox |-> 4, parent |-> Undefined,
             Style |-> <<Style("s6", Legend(Str(<<>>), "image/png"))>>]}

\* capabilities.Service of each document.
DocService(doc) ==
    CASE doc = "d1" ->
           [Abstract |-> Str(<<"about a">>), AccessConstraints |-> Str(<<"NONE">>),
            KeywordList |-> [Keyword |-> Arr(<<Str(<<"WMS">>), Str(<<"GEOSERVER">>)>>)]]
      [] doc = "d2" -> Undefined
      [] OTHER ->
           [Abstract |-> Str(<<"A compliant implementation of WMS">>),
            AccessConstraints |-> Str(<<"fees apply">>),
            KeywordList |-> [Keyword |-> Str(<<"GEOSERVER">>)]]

\* capabilities.findLayer(name): the layer of that name, or undefined.  The
\* layer object belongs to the payload instance it was parsed into.
findLayer(caps, name) ==
    IF \E l \in DocLayers(caps.doc) : l.Name = name
    THEN [layer |-> CHOOSE l \in DocLayers(caps.doc) : l.Name = name,
          payload |-> caps.load]
    ELSE Undefined

\* getRectangleFromLayer(layer): a Rectangle object built from the layer's
\* bounding box, or undefined when the layer has none.
getRectangleFromLayer(l) ==
    IF l.layer.bbox = 0 THEN Undefined
    ELSE [rect |-> l.layer.bbox, payload |-> l.payload, of |-> l.layer.Name]

\* ---- String.prototype.split(',') ----
RECURSIVE SplitFrom(_, _)
SplitFrom(s, cur) ==
    IF s = <<>> THEN <<Str(cur)>>
    ELSE IF Head(s) = "," THEN <<Str(cur)>> \o SplitFrom(Tail(s), <<>>)
    ELSE SplitFrom(Tail(s), Append(cur, Head(s)))

split(s) == SplitFrom(s.str, <<>>)

\* WebMapServiceCatalogItem.layersArray
layersArrayOf(lyrs) ==
    IF IsArray(lyrs) THEN lyrs.arr
    ELSE IF Truthy(lyrs) THEN split(lyrs)
    ELSE <<>>

layersArray == layersArrayOf(layers)

\* GetCapabilitiesStratum.capabilitiesLayers: the lookup results in the
\* order of layersArray (a Map from name to layer-or-undefined).
\* A Map keeps one entry per key, at the position of the key's first
\* occurrence.
capabilitiesLayersOf(caps, lyrs) ==
    LET names == layersArrayOf(lyrs)
        firsts == SelectSeq([i \in 1..Len(names) |-> [i |-> i, n |-> names[i]]],
                            LAMBDA e : \A j \in 1..(e.i - 1) : names[j] # e.n)
    IN [k \in 1..Len(firsts) |->
          [name |-> firsts[k].n,
           layer |-> IF caps = Undefined THEN Undefined
                     ELSE findLayer(caps, firsts[k].n)]]

capabilitiesLayers == capabilitiesLayersOf(capabilities, layers)

\* Variant: the last found layer is taken instead of the first.
rectangleOf_lastLayer(caps, lyrs) ==
    LET found == SelectSeq(capabilitiesLayersOf(caps, lyrs),
                           LAMBDA e : e.layer # Undefined)
    IN IF Len(found) > 0 THEN getRectangleFromLayer(found[Len(found)].layer)
       ELSE Undefined

\* GetCapabilitiesStratum.rectangle
rectangleOf(caps, lyrs) ==
    LET found == SelectSeq(capabilitiesLayersOf(caps, lyrs),
                           LAMBDA e : e.layer # Undefined)
    IN IF Len(found) > 0 THEN getRectangleFromLayer(found[1].layer)
       ELSE Undefined

rectangle == rectangleOf(capabilities, layers)

\* ---- derived properties of the stratum ----
\* The outcome of a getter that throws (a call or property read on a value
\* that does not support it).
TypeError == [raised |-> "TypeError"]
Raised(v) == v = TypeError

\* capabilities.getInheritedValues(layer, 'Style'): the styles of the layer
\* followed by those of its ancestors.
RECURSIVE getInheritedStyles(_, _)
getInheritedStyles(doc, l) ==
    l.Style \o
    (IF l.parent = Undefined THEN <<>>
     ELSE getInheritedStyles(doc, CHOOSE p \in DocLayers(doc) : p.Name = l.parent))

\* decodeURIComponent: each escape token is replaced by its character.
decodeURIComponent(s) ==
    Str([i \in 1..Len(s.str) |-> IF s.str[i] = "%20" THEN " " ELSE s.str[i]])

\* new URI(text) and URI.toString(): parsed and rebuilt unchanged.
URI(s) == [uri |-> s]
toString(u) == u.uri

\* The style record availableStyles builds from a CapabilitiesStyle.
styleOf(style) ==
    LET wmsLegendUrl ==
          IF IsArray(style.LegendURL)
          THEN (IF Len(style.LegendURL.arr) > 0 THEN style.LegendURL.arr[1] ELSE Undefined)
          ELSE style.LegendURL
        hasUri ==
          /\ Truthy(wmsLegendUrl)
          /\ Truthy(wmsLegendUrl.OnlineResource)
          /\ Truthy(wmsLegendUrl.OnlineResource.href)
    IN [name |-> style.Name, title |-> style.Title, abstract |-> style.Abstract,
        legendUrl |->
          IF hasUri
          THEN [url |-> toString(URI(decodeURIComponent(wmsLegendUrl.OnlineResource.href))),
                mimeType |-> wmsLegendUrl.Format]
          ELSE Undefined]

\* GetCapabilitiesStratum.availableStyles: a plain object, here the list of
\* its own properties [name, styles] in insertion order.
availableStylesOf(caps, lyrs) ==
    IF ~Truthy(caps) THEN <<>>
    ELSE LET cl == capabilitiesLayersOf(caps, lyrs)
         IN [k \in 1..Len(cl) |->
               [name |-> cl[k].name,
                styles |->
                  LET inherited == IF Truthy(cl[k].layer)
                                   THEN getInheritedStyles(caps.doc, cl[k].layer.layer)
                                   ELSE <<>>
                  IN Arr([j \in 1..Len(inherited) |-> styleOf(inherited[j])])]]

availableStyles == availableStylesOf(capabilities, layers)

\* A property read obj[key] on a plain object: an own property if there is
\* one, else what Object.prototype holds under that name, else undefined.
ObjectPrototypeKeys ==
    {Str(<<"constructor">>), Str(<<"toString">>), Str(<<"valueOf">>),
     Str(<<"hasOwnProperty">>)}

ObjectGet(obj, key) ==
    IF \E k \in 1..Len(obj) : obj[k].name = key
    THEN obj[CHOOSE k \in 1..Len(obj) : obj[k].name = key].styles
    ELSE IF key \in ObjectPrototypeKeys THEN [function |-> key]
    ELSE Undefined

\* getLegendUrlsForLayer, the helper of legendUrls.
getLegendUrlsForLayer(layer, styleObject) ==
    LET styles == ObjectGet(styleObject, layer)
    IN IF styles = Undefined THEN Arr(<<>>)
       ELSE IF ~IsArray(styles) THEN TypeError
       ELSE LET all == [j \in 1..Len(styles.arr) |-> styles.arr[j].legendUrl]
            IN Arr(SelectSeq(all, LAMBDA u : u # Undefined))

RECURSIVE concat(_)
concat(a) == IF a = <<>> THEN <<>> ELSE Head(a).arr \o concat(Tail(a))

\* WebMapServiceCatalogItem.legendUrls
legendUrlsOf(caps, lyrs) ==
    LET names == layersArrayOf(lyrs)
        a == [i \in 1..Len(names) |->
                getLegendUrlsForLayer(names[i], availableStylesOf(caps, lyrs))]
    IN IF \E i \in 1..Len(a) : Raised(a[i]) THEN TypeError
       ELSE Arr(concat(a))

legendUrls == legendUrlsOf(capabilities, layers)

\* WebMapServiceCatalogItem.abstractsToIgnore
abstractsToIgnore == <<Str(<<"A compliant implementation of WMS">>)>>

\* containsAny(s, possibleStrings): one of the strings occurs in s.
Occurs(t, s) ==
    \E i \in 0..(Len(s.str) - Len(t.str)) :
        \A j \in 1..Len(t.str) : s.str[i + j] = t.str[j]

containsAny(s, possibleStrings) ==
    \E k \in 1..Len(possibleStrings) : Occurs(possibleStrings[k], s)

\* Variant: the stock abstracts are not filtered out.
infoSectionOf_keepsIgnored(entry, size) ==
    IF \/ ~Truthy(entry.layer)
       \/ ~Truthy(entry.layer.layer.Abstract)
    THEN Undefined
    ELSE [name |-> Str(<<"Data Description">> \o
                       (IF size = 1 THEN <<>>
                        ELSE <<" - ">> \o entry.layer.layer.Title.str)),
          content |-> entry.layer.layer.Abstract]

\* One round of the loop of info over capabilitiesLayers: undefined when the
\* layer is skipped, else the Data Description section.
infoSectionOf(entry, size) ==
    IF \/ ~Truthy(entry.layer)
       \/ ~Truthy(entry.layer.layer.Abstract)
       \/ containsAny(entry.layer.layer.Abstract, abstractsToIgnore)
    THEN Undefined
    ELSE [name |-> Str(<<"Data Description">> \o
                       (IF size = 1 THEN <<>>
                        ELSE <<" - ">> \o entry.layer.layer.Title.str)),
          content |-> entry.layer.layer.Abstract]

\* /^none$/i
IsNone(s) == s.str \in {<<"none">>, <<"NONE">>, <<"None">>}

\* GetCapabilitiesStratum.info
infoOf(caps, lyrs) ==
    LET cl == capabilitiesLayersOf(caps, lyrs)
        rounds == [k \in 1..Len(cl) |-> infoSectionOf(cl[k], Len(cl))]
        sections == SelectSeq(rounds, LAMBDA r : r # Undefined)
        firstDataDescription ==
            IF sections = <<>> THEN Undefined ELSE sections[1].content
        service == IF Truthy(caps) THEN DocService(caps.doc) ELSE Undefined
    IN Arr(sections
            \o (IF /\ Truthy(service)
                   /\ Truthy(service.Abstract)
                   /\ ~containsAny(service.Abstract, abstractsToIgnore)
                   /\ service.Abstract # firstDataDescription
                THEN <<[name |-> Str(<<"Service Description">>),
                        content |-> service.Abstract]>>
                ELSE <<>>)
            \o (IF /\ Truthy(service)
                   /\ Truthy(service.AccessConstraints)
                   /\ ~IsNone(service.AccessConstraints)
                THEN <<[name |-> Str(<<"Access Constraints">>),
                        content |-> service.AccessConstraints]>>
                ELSE <<>>))

info == infoOf(capabilities, layers)

\* GetCapabilitiesStratum.isGeoServer
isGeoServerOf(caps) ==
    IF ~Truthy(caps) THEN Undefined
    ELSE LET service == DocService(caps.doc)
         IN IF \/ ~Truthy(service)
               \/ ~Truthy(service.KeywordList)
               \/ ~Truthy(service.KeywordList.Keyword)
            THEN Bool(FALSE)
            ELSE LET keyword == service.KeywordList.Keyword
                 IN IF IsArray(keyword)
                    THEN Bool(\E i \in 1..Len(keyword.arr) :
                                 keyword.arr[i] = Str(<<"GEOSERVER">>))
                    ELSE Bool(keyword = Str(<<"GEOSERVER">>))

isGeoServer == isGeoServerOf(capabilities)

\* ---- the item's GetCapabilities URL ----
\* WebMapServiceCatalogItem.defaultGetCapabilitiesUrl
defaultGetCapabilitiesUrl(u) ==
    IF u # Undefined
    THEN Str(u.str \o <<"?service=WMS&version=1.3.0&request=GetCapabilities">>)
    ELSE Undefined

getCapabilitiesUrl == defaultGetCapabilitiesUrl(url)

\* proxyCatalogItemUrl: opaque rewriting of the outbound URL.
proxyCatalogItemUrl(u) == [proxied |-> u]

\* ---- the promises returned by loadCapabilities ----
ConfigurationError ==
    [title |-> "Unable to load GetCapabilities",
     message |-> "Could not load the Web Map Service (WMS) GetCapabilities document because the catalog item does not have a url."]
NetworkOrParseError == [title |-> "fromUrl", message |-> "request failed"]

\* calls[i] is the promise returned by the i-th call of loadCapabilities:
\* its status, the error it was rejected with, the proxied URL its fetch
\* was started on, the state of that fetch (the promise of fromUrl), and
\* the document the fetch resolved with.
Pending == {i \in 1..Len(calls) : calls[i].status = "pending"}

\* ---- the memoized layer builder ----
currentDiscreteTime == Undefined
nextDiscreteTime == Undefined

\* The function wrapped by createTransformer: undefined while the stratum is
\* loading, otherwise a new WebMapServiceImageryProvider.
createImageryProvider(time, id, loading, u, lyrs, rect) ==
    IF loading THEN Undefined
    ELSE [id |-> id, time |-> time,
          url |-> IF Truthy(u) THEN u ELSE Str(<<>>),
          layers |-> IF Truthy(lyrs) THEN lyrs ELSE Str(<<>>),
          maximumLevel |-> 20,
          rectangle |-> rect]

\* The observables the wrapped function read on its last run: isLoading
\* alone when it returned early, else isLoading, url, layers and rectangle.
depsOf(loading, u, lyrs, rect) ==
    IF loading THEN [isLoading |-> loading]
    ELSE [isLoading |-> loading, url |-> u, layers |-> lyrs, rectangle |-> rect]

\* Variant: a cached entry is returned whatever has changed since.
_createImageryProvider_neverInvalidated(entry, time, id, loading, u, lyrs, rect) ==
    IF entry # Undefined
    THEN entry
    ELSE [value |-> createImageryProvider(time, id, loading, u, lyrs, rect),
          deps |-> depsOf(loading, u, lyrs, rect)]

\* Variant: no memoization, the wrapped function runs on every request.
_createImageryProvider_notMemoized(entry, time, id, loading, u, lyrs, rect) ==
    [value |-> createImageryProvider(time, id, loading, u, lyrs, rect),
     deps |-> depsOf(loading, u, lyrs, rect)]

\* createTransformer: the cached entry of a time key is kept while none of
\* the observables it read has changed, and is re-run otherwise.
_createImageryProvider(entry, time, id, loading, u, lyrs, rect) ==
    IF entry # Undefined /\ entry.deps = depsOf(loading, u, lyrs, rect)
    THEN entry
    ELSE [value |-> createImageryProvider(time, id, loading, u, lyrs, rect),
          deps |-> depsOf(loading, u, lyrs, rect)]

\* Variant: the descriptor carries the default opacity, not the trait.
_currentImageryParts_defaultAlpha ==
    LET time == IF Truthy(currentDiscreteTime) THEN currentDiscreteTime ELSE Str(<<"now">>)
        imageryProvider == transformerCache[time].value
    IN IF imageryProvider = Undefined THEN Undefined
       ELSE [imageryProvider |-> imageryProvider,
             alpha |-> 8,
             show |-> IF show # Undefined THEN show.bool ELSE TRUE]

\* WebMapServiceCatalogItem._currentImageryParts
_currentImageryParts ==
    LET time == IF Truthy(currentDiscreteTime) THEN currentDiscreteTime ELSE Str(<<"now">>)
        imageryProvider == transformerCache[time].value
    IN IF imageryProvider = Undefined THEN Undefined
       ELSE [imageryProvider |-> imageryProvider,
             alpha |-> opacity,
             show |-> IF show # Undefined THEN show.bool ELSE TRUE]

\* WebMapServiceCatalogItem._nextImageryParts
_nextImageryParts ==
    IF Truthy(nextDiscreteTime)
    THEN LET imageryProvider == transformerCache[nextDiscreteTime].value
         IN IF imageryProvider = Undefined THEN Undefined
            ELSE [imageryProvider |-> imageryProvider, alpha |-> 0, show |-> TRUE]
    ELSE Undefined

\* WebMapServiceCatalogItem.mapItems
mapItems ==
    (IF _currentImageryParts # Undefined THEN <<_currentImageryParts>> ELSE <<>>)
    \o (IF _nextImageryParts # Undefined THEN <<_nextImageryParts>> ELSE <<>>)

\* The time keys the observer of mapItems requests.
ObservedTimes ==
    {IF Truthy(currentDiscreteTime) THEN currentDiscreteTime ELSE Str(<<"now">>)}
    \cup (IF Truthy(nextDiscreteTime) THEN {nextDiscreteTime} ELSE {})

\* The reaction run at the end of every action: each observed cache entry
\* is re-evaluated against the new values of the observables.
Observe ==
    LET rect == rectangleOf(capabilities', layers')
        stale == {t \in ObservedTimes :
                    transformerCache[t].deps # depsOf(isLoading', url', layers', rect)}
        built == {t \in stale : ~isLoading'}
    IN /\ Cardinality(built) > 0 => nextInstance <= MaxInstances
       /\ transformerCache' =
            [t \in ObservedTimes |->
                _createImageryProvider(transformerCache[t], t, nextInstance,
                                       isLoading', url', layers', rect)]
       /\ nextInstance' = nextInstance + Cardinality(built)

\* ---- MobileModalWindow ----
MaxItems == 3

\* JavaScript null, the value of viewState.mobileView when no view is shown.
Null == "null"

\* viewState.mobileViewOptions
mobileViewOptions ==
    [search |-> "search", data |-> "data", preview |-> "preview",
     nowViewing |-> "nowViewing"]

MobileViews == {mobileViewOptions[k] : k \in DOMAIN mobileViewOptions}

\* MobileModalWindow.renderModalContent: the component shown for a view.
renderModalContent(view) ==
    CASE view = mobileViewOptions.search -> "MobileSearch"
      [] view = mobileViewOptions.data -> "DataCatalogTab"
      [] view = mobileViewOptions.preview -> "DataPreview"
      [] view = mobileViewOptions.nowViewing -> "NowViewingContainer"
      [] OTHER -> Null

\* MobileModalWindow.render: the class is-open, the content and the Done
\* button of the element it returns.
render(view, visible) ==
    [isOpen |-> visible /\ view # Null,
     content |-> renderModalContent(view),
     doneButton |-> visible /\ view # Null]

\* The component as mounted: no item is being viewed yet.
InitModal ==
    /\ mobileView = Null
    /\ modalVisible = FALSE
    /\ nowViewingItems = 0
    /\ rendered = render(Null, FALSE)
    /\ lastMethod = "render"

\* ---- Init: the item after construction, observed by the renderer ----
Init ==
    /\ url = Undefined
    /\ layers = Undefined
    /\ opacity = 8
    /\ show = Bool(TRUE)
    /\ isLoading = FALSE
    /\ capabilities = Undefined
    /\ calls = <<>>
    /\ lastSettled = 0
    /\ transformerCache =
          [t \in ObservedTimes |->
              _createImageryProvider(Undefined, t, 1, FALSE, Undefined, Undefined, Undefined)]
    /\ nextInstance = 2
    /\ callers = <<>>
    /\ Base = <<>>
    /\ applied = <<>>
    /\ traits = <<>>
    /\ InitModal

\* ---- operations ----
\* Variant: the URL is tested before the flags are touched.
loadCapabilities_checkFirst ==
    /\ Len(calls) < MaxLoads
    /\ isLoading' = (IF getCapabilitiesUrl = Undefined THEN isLoading ELSE TRUE)
    /\ capabilities' = (IF getCapabilitiesUrl = Undefined THEN capabilities ELSE Undefined)
    /\ IF getCapabilitiesUrl = Undefined
       THEN /\ calls' = Append(calls, [status |-> "rejected", error |-> ConfigurationError,
                                       url |-> Undefined, fetch |-> "none",
                                       fetched |-> Undefined])
            /\ lastSettled' = Len(calls) + 1
       ELSE /\ calls' = Append(calls, [status |-> "pending", error |-> Undefined,
                                       url |-> proxyCatalogItemUrl(getCapabilitiesUrl),
                                       fetch |-> "pending", fetched |-> Undefined])
            /\ lastSettled' = lastSettled
    /\ UNCHANGED <<url, layers, opacity, show>>
    /\ UNCHANGED <<traitVars, modalVars>>
    /\ Observe

\* Variant: the previous payload is not cleared at the start.
loadCapabilities_keepPayload ==
    /\ Len(calls) < MaxLoads
    /\ isLoading' = TRUE
    /\ capabilities' = capabilities
    /\ IF getCapabilitiesUrl = Undefined
       THEN /\ calls' = Append(calls, [status |-> "rejected", error |-> ConfigurationError,
                                       url |-> Undefined, fetch |-> "none",
                                       fetched |-> Undefined])
            /\ lastSettled' = Len(calls) + 1
       ELSE /\ calls' = Append(calls, [status |-> "pending", error |-> Undefined,
                                       url |-> proxyCatalogItemUrl(getCapabilitiesUrl),
                                       fetch |-> "pending", fetched |-> Undefined])
            /\ lastSettled' = lastSettled
    /\ UNCHANGED <<url, layers, opacity, show>>
    /\ UNCHANGED <<traitVars, modalVars>>
    /\ Observe

\* Variant: isLoading is not raised at the start.
loadCapabilities_noFlag ==
    /\ Len(calls) < MaxLoads
    /\ isLoading' = isLoading
    /\ capabilities' = Undefined
    /\ IF getCapabilitiesUrl = Undefined
       THEN /\ calls' = Append(calls, [status |-> "rejected", error |-> ConfigurationError,
                                       url |-> Undefined, fetch |-> "none",
                                       fetched |-> Undefined])
            /\ lastSettled' = Len(calls) + 1
       ELSE /\ calls' = Append(calls, [status |-> "pending", error |-> Undefined,
                                       url |-> proxyCatalogItemUrl(getCapabilitiesUrl),
                                       fetch |-> "pending", fetched |-> Undefined])
            /\ lastSettled' = lastSettled
    /\ UNCHANGED <<url, layers, opacity, show>>
    /\ UNCHANGED <<traitVars, modalVars>>
    /\ Observe

\* GetCapabilitiesStratum.loadCapabilities
loadCapabilities ==
    /\ Len(calls) < MaxLoads
    /\ isLoading' = TRUE
    /\ capabilities' = Undefined
    /\ IF getCapabilitiesUrl = Undefined
       THEN /\ calls' = Append(calls, [status |-> "rejected", error |-> ConfigurationError,
                                       url |-> Undefined, fetch |-> "none",
                                       fetched |-> Undefined])
            /\ lastSettled' = Len(calls) + 1
       ELSE /\ calls' = Append(calls, [status |-> "pending", error |-> Undefined,
                                       url |-> proxyCatalogItemUrl(getCapabilitiesUrl),
                                       fetch |-> "pending", fetched |-> Undefined])
            /\ lastSettled' = lastSettled
    /\ UNCHANGED <<url, layers, opacity, show>>
    /\ UNCHANGED <<traitVars, modalVars>>
    /\ Observe

\* The promise of loadCapabilities is handed back unchanged to whoever
\* called the item; callers[i] names the method that call i came through.
loadMetadataFor(caller) ==
    /\ loadCapabilities
    /\ callers' = Append(callers, caller)

\* WebMapServiceCatalogItem.loadMetadata
loadMetadata == loadMetadataFor("loadMetadata")

\* WebMapServiceCatalogItem.loadData
loadData == loadMetadataFor("loadData")

\* Variant: the completion stores the payload but leaves isLoading.
FetchResolved_keepLoading(i, doc) ==
    /\ i \in Pending
    /\ capabilities' = [doc |-> doc, load |-> i]
    /\ isLoading' = isLoading
    /\ calls' = [calls EXCEPT ![i].status = "resolved", ![i].fetch = "fulfilled",
                              ![i].fetched = [doc |-> doc, load |-> i]]
    /\ lastSettled' = i
    /\ UNCHANGED <<url, layers, opacity, show>>
    /\ UNCHANGED <<callers, traitVars, modalVars>>
    /\ Observe

\* Variant: only the first completed load stores its document.
FetchResolved_firstOnly(i, doc) ==
    /\ i \in Pending
    /\ capabilities' = (IF \E j \in 1..Len(calls) : calls[j].status = "resolved"
                        THEN capabilities
                        ELSE [doc |-> doc, load |-> i])
    /\ isLoading' = FALSE
    /\ calls' = [calls EXCEPT ![i].status = "resolved", ![i].fetch = "fulfilled",
                              ![i].fetched = [doc |-> doc, load |-> i]]
    /\ lastSettled' = i
    /\ UNCHANGED <<url, layers, opacity, show>>
    /\ UNCHANGED <<callers, traitVars, modalVars>>
    /\ Observe

\* The fetch of load i resolves with a freshly parsed document: the then
\* callback of loadCapabilities runs.
FetchResolved(i, doc) ==
    /\ i \in Pending
    /\ capabilities' = [doc |-> doc, load |-> i]
    /\ isLoading' = FALSE
    /\ calls' = [calls EXCEPT ![i].status = "resolved", ![i].fetch = "fulfilled",
                              ![i].fetched = [doc |-> doc, load |-> i]]
    /\ lastSettled' = i
    /\ UNCHANGED <<url, layers, opacity, show>>
    /\ UNCHANGED <<callers, traitVars, modalVars>>
    /\ Observe

\* Variant: the rejection is caught inside the stratum and the returned
\* promise resolves.
FetchRejected_swallowed(i) ==
    /\ i \in Pending
    /\ calls' = [calls EXCEPT ![i].fetch = "rejected", ![i].status = "resolved",
                              ![i].error = NetworkOrParseError]
    /\ lastSettled' = i
    /\ UNCHANGED <<url, layers, opacity, show, isLoading, capabilities>>
    /\ UNCHANGED <<callers, traitVars, modalVars>>
    /\ Observe

\* The fetch of load i rejects: loadCapabilities attached no rejection
\* handler, so only the returned promise changes.
FetchRejected(i) ==
    /\ i \in Pending
    /\ calls' = [calls EXCEPT ![i].fetch = "rejected", ![i].status = "rejected",
                              ![i].error = NetworkOrParseError]
    /\ lastSettled' = i
    /\ UNCHANGED <<url, layers, opacity, show, isLoading, capabilities>>
    /\ UNCHANGED <<callers, traitVars, modalVars>>
    /\ Observe

\* Trait values set on the item's user stratum.
SetUrl(u) ==
    /\ u # url
    /\ url' = u
    /\ UNCHANGED <<layers, opacity, show, isLoading, capabilities, calls, lastSettled,
                   callers, traitVars, modalVars>>
    /\ Observe

SetLayers(l) ==
    /\ l # layers
    /\ layers' = l
    /\ UNCHANGED <<url, opacity, show, isLoading, capabilities, calls, lastSettled,
                   callers, traitVars, modalVars>>
    /\ Observe

Next ==
    \/ loadMetadata
    \/ \E i \in 1..MaxLoads, doc \in DocNames : FetchResolved(i, doc)
    \/ \E i \in 1..MaxLoads : FetchRejected(i)
    \/ \E u \in Urls : SetUrl(u)
    \/ \E l \in LayersValues : SetLayers(l)

Spec == Init /\ [][Next]_vars

\* The descriptor traits: opacity and show set on the item.
SetOpacity(o) ==
    /\ o # opacity
    /\ opacity' = o
    /\ UNCHANGED <<url, layers, show, isLoading, capabilities, calls, lastSettled,
                   callers, traitVars, modalVars>>
    /\ Observe

SetShow(b) ==
    /\ b # show
    /\ show' = b
    /\ UNCHANGED <<url, layers, opacity, isLoading, capabilities, calls, lastSettled,
                   callers, traitVars, modalVars>>
    /\ Observe

NextParts ==
    \/ Next
    \/ \E o \in Opacities : SetOpacity(o)
    \/ \E b \in Shows : SetShow(b)

SpecParts == Init /\ [][NextParts]_vars

\* The derived properties under every layer list and document: loads of
\* the item, any of the documents as the fetched payload, any layer list.
NextDerived ==
    \/ Len(calls) < MaxDerivedLoads /\ loadMetadata
    \/ \E i \in 1..MaxLoads, doc \in WideDocNames : FetchResolved(i, doc)
    \/ \E i \in 1..MaxLoads : FetchRejected(i)
    \/ \E u \in Urls : SetUrl(u)
    \/ \E l \in WideLayersValues : SetLayers(l)

SpecDerived == Init /\ [][NextDerived]_vars

\* The load entry points and the settling of their fetches: loadData and
\* loadMetadata called in any order, with the URL set or missing.
NextLoad ==
    \/ loadMetadata
    \/ loadData
    \/ \E i \in 1..MaxLoads, doc \in DocNames : FetchResolved(i, doc)
    \/ \E i \in 1..MaxLoads : FetchRejected(i)
    \/ \E u \in Urls : SetUrl(u)

SpecLoad == Init /\ [][NextLoad]_vars

\* ---- trait schema composition ----
\* A schema is the list of the names of its trait definitions, in the order
\* the definitions were attached to the class.
MaxLayers == 3

\* The schemas mixGroupTraits is applied to: ModelTraits itself and schemas
\* that already carry traits.
BaseSchemas ==
    {<<>>, <<"name">>, <<"name", "url">>, <<"layers", "isOpen">>}

\* The traits a decorator list attaches to a class extending base: the
\* recognized set is the union, the added ones appended after the base's.
mix(base, added) ==
    base \o SelectSeq(added, LAMBDA t : \A k \in 1..Len(base) : base[k] # t)

\* The traits declared by class GroupTraits, in declaration order.
GroupTraits == <<"isOpen", "members">>

\* Variant: the group traits come before the base's.
mixGroupTraits_prepended(B) == mix(GroupTraits, B)

mixGroupTraits(B) == mix(B, GroupTraits)

\* The other schema mixins of the catalog item's chain.
mixUrlTraits(B) == mix(B, <<"url">>)
mixCatalogMemberTraits(B) == mix(B, <<"name", "description", "info">>)
mixOpacityTraits(B) == mix(B, <<"opacity">>)

\* The traits a layer declares by itself (the layer applied to ModelTraits).
LayerTraits(layer) ==
    CASE layer = "mixGroupTraits" -> mixGroupTraits(<<>>)
      [] layer = "mixUrlTraits" -> mixUrlTraits(<<>>)
      [] layer = "mixCatalogMemberTraits" -> mixCatalogMemberTraits(<<>>)
      [] OTHER -> mixOpacityTraits(<<>>)

InitTraits ==
    /\ Init!1 /\ Init!2 /\ Init!3 /\ Init!4 /\ Init!5 /\ Init!6 /\ Init!7
    /\ Init!8 /\ Init!9 /\ Init!10 /\ Init!11
    /\ Base \in BaseSchemas
    /\ applied = <<>>
    /\ traits = Base
    /\ InitModal

itemVars ==
    <<url, layers, opacity, show, isLoading, capabilities, calls,
      lastSettled, transformerCache, nextInstance, callers>>

ApplyLayer(layer, result) ==
    /\ Len(applied) < MaxLayers
    /\ traits' = result
    /\ applied' = Append(applied, layer)
    /\ UNCHANGED <<Base, itemVars, modalVars>>

ApplyMixGroupTraits == ApplyLayer("mixGroupTraits", mixGroupTraits(traits))
ApplyMixUrlTraits == ApplyLayer("mixUrlTraits", mixUrlTraits(traits))
ApplyMixCatalogMemberTraits ==
    ApplyLayer("mixCatalogMemberTraits", mixCatalogMemberTraits(traits))
ApplyMixOpacityTraits == ApplyLayer("mixOpacityTraits", mixOpacityTraits(traits))

NextTraits ==
    \/ ApplyMixGroupTraits
    \/ ApplyMixUrlTraits
    \/ ApplyMixCatalogMemberTraits
    \/ ApplyMixOpacityTraits

SpecTraits == InitTraits /\ [][NextTraits]_vars

\* ---- MobileModalWindow: lifecycle and handlers ----
\* The component mounted over a view state in any configuration.
InitMounted ==
    /\ Init!1 /\ Init!2 /\ Init!3 /\ Init!4 /\ Init!5 /\ Init!6 /\ Init!7
    /\ Init!8 /\ Init!9 /\ Init!10 /\ Init!11 /\ Init!12 /\ Init!13 /\ Init!14
    /\ mobileView \in MobileViews \cup {Null}
    /\ modalVisible \in BOOLEAN
    /\ nowViewingItems = 0
    /\ rendered = render(mobileView, modalVisible)
    /\ lastMethod = "render"

\* ViewState.switchMobileView and ViewState.toggleModal.
switchMobileView(viewName) == mobileView' = viewName
toggleModal(bool) == modalVisible' = bool

\* The render that follows a change of the props or of an observed
\* property of the view state.
Rerender(method) ==
    /\ rendered' = render(mobileView', modalVisible')
    /\ lastMethod' = method
    /\ UNCHANGED <<itemVars, traitVars>>

\* Variant: the modal is closed but the view is left as it is.
componentWillReceiveProps_keepsView ==
    /\ IF nowViewingItems = 0 /\ mobileView = mobileViewOptions.nowViewing
       THEN /\ UNCHANGED mobileView
            /\ toggleModal(FALSE)
       ELSE UNCHANGED <<mobileView, modalVisible>>
    /\ UNCHANGED nowViewingItems
    /\ Rerender("componentWillReceiveProps")

\* MobileModalWindow.componentWillReceiveProps, called when the parent
\* renders again, followed by the component's own render.
componentWillReceiveProps ==
    /\ IF nowViewingItems = 0 /\ mobileView = mobileViewOptions.nowViewing
       THEN /\ switchMobileView(Null)
            /\ toggleModal(FALSE)
       ELSE UNCHANGED <<mobileView, modalVisible>>
    /\ UNCHANGED nowViewingItems
    /\ Rerender("componentWillReceiveProps")

\* MobileModalWindow.onClearMobileUI, the click handler of the Done button.
onClearMobileUI ==
    /\ rendered.doneButton
    /\ switchMobileView(Null)
    /\ toggleModal(FALSE)
    /\ UNCHANGED nowViewingItems
    /\ Rerender("onClearMobileUI")

\* Another component switches the mobile view.
SwitchMobileView(viewName) ==
    /\ switchMobileView(viewName)
    /\ UNCHANGED <<modalVisible, nowViewingItems>>
    /\ Rerender("switchMobileView")

\* Another component shows or hides the modal.
ToggleModal(bool) ==
    /\ toggleModal(bool)
    /\ UNCHANGED <<mobileView, nowViewingItems>>
    /\ Rerender("toggleModal")

\* An item is added to, or removed from, terria.nowViewing.items.
AddItem ==
    /\ nowViewingItems < MaxItems
    /\ nowViewingItems' = nowViewingItems + 1
    /\ UNCHANGED <<mobileView, modalVisible>>
    /\ Rerender("nowViewing.add")

RemoveItem ==
    /\ nowViewingItems > 0
    /\ nowViewingItems' = nowViewingItems - 1
    /\ UNCHANGED <<mobileView, modalVisible>>
    /\ Rerender("nowViewing.remove")

NextModal ==
    \/ componentWillReceiveProps
    \/ onClearMobileUI
    \/ \E viewName \in MobileViews \cup {Null} : SwitchMobileView(viewName)
    \/ \E bool \in BOOLEAN : ToggleModal(bool)
    \/ AddItem
    \/ RemoveItem

SpecModal == InitMounted /\ [][NextModal]_vars

\* ---- helpers of the properties ----
Now == Str(<<"now">>)

\* The call made in this step, if any.
CallMade == Len(calls') = Len(calls) + 1
NewCall == calls'[Len(calls')]

\* The fetch of load i rejects / resolves in this step.
RejectsNow(i) == i \in Pending /\ calls'[i].status = "rejected"
ResolvesNow(i) == i \in Pending /\ calls'[i].status = "resolved"

Resolved == {i \in 1..Len(calls) : calls[i].status = "resolved"}
Rejected == {i \in 1..Len(calls) : calls[i].status = "rejected"}
Fetched == {i \in 1..Len(calls) : calls[i].url # Undefined}

\* C1: when the capabilities fetch rejects, the state after the rejection
\* has isLoading = false and the payload undefined.
C1_RejectionClearsIsLoading ==
    [][\A i \in 1..MaxLoads :
          RejectsNow(i) => (isLoading' = FALSE /\ capabilities' = Undefined)]_vars

\* C2: with no URL, loadMetadata() returns a promise rejected with a
\* structured error (title and message), and mapItems is empty afterwards.
C2_NoUrlRejects ==
    [][(CallMade /\ getCapabilitiesUrl = Undefined) =>
          /\ NewCall.status = "rejected"
          /\ NewCall.error # Undefined
          /\ {"title", "message"} \subseteq DOMAIN NewCall.error
          /\ mapItems' = <<>>]_vars

C2_Witness ==
    /\ Len(calls) > 0
    /\ calls[Len(calls)].error = ConfigurationError
    /\ lastSettled = Len(calls)
    /\ Resolved # {}
    /\ mapItems = <<>>

\* C3: a loadCapabilities() call rejected for the missing URL leaves the
\* pair (isLoading, capabilities) as it was before the call.
C3_NoUrlMutatesNothing ==
    [][(CallMade /\ getCapabilitiesUrl = Undefined) =>
          (isLoading' = isLoading /\ capabilities' = capabilities)]_vars

\* C4: starting a load sets isLoading and clears the payload in one step, a
\* successful completion stores the payload and clears isLoading in one
\* step, and no state has isLoading = true together with a defined payload.
C4_AtomicLoadTransitions ==
    /\ [](isLoading => capabilities = Undefined)
    /\ [][CallMade => (isLoading' = TRUE /\ capabilities' = Undefined)]_vars
    /\ [][\A i \in 1..MaxLoads :
            ResolvesNow(i) =>
               (isLoading' = FALSE /\ capabilities' = calls'[i].fetched
                /\ capabilities' # Undefined)]_vars

C4_Witness ==
    /\ isLoading
    /\ capabilities = Undefined
    /\ Resolved # {}
    /\ Pending # {}

\* C5: once every overlapping load has settled successfully, the payload
\* is the document fetched by the most recently started load.
C5_LatestStartedWins ==
    (Pending = {} /\ Fetched # {} /\ Fetched \subseteq Resolved
       /\ capabilities # Undefined)
    => capabilities =
         calls[CHOOSE i \in Fetched : \A j \in Fetched : j <= i].fetched

\* C6: whenever isLoading is true, mapItems is empty, also after an earlier
\* load completed and a layer object was built and cached.
C6_LoadingHidesMapItems == isLoading => mapItems = <<>>

C6_Witness ==
    /\ isLoading
    /\ Resolved # {}
    /\ nextInstance > 2
    /\ mapItems = <<>>

\* ---- the memoized builder ----
\* The object the builder returns for the time key "now".
provider == transformerCache[Now].value

\* The object is the one the wrapped function builds from the current url,
\* layers and rectangle.
BuiltFromCurrent ==
    /\ provider.url = (IF Truthy(url) THEN url ELSE Str(<<>>))
    /\ provider.layers = (IF Truthy(layers) THEN layers ELSE Str(<<>>))
    /\ provider.rectangle = rectangle

InputsUnchanged ==
    /\ url' = url
    /\ layers' = layers
    /\ capabilities' = capabilities
    /\ isLoading' = isLoading

\* The request after the step returns undefined (loading) or an object
\* never returned before, built from the inputs of the new state.
Rebuilt ==
    \/ provider' = Undefined
    \/ /\ provider'.id = nextInstance
       /\ provider' # provider
       /\ BuiltFromCurrent'

\* C7: with url, layers, payload and isLoading unchanged the builder
\* returns the identical instance, and after any of them changed it
\* returns a distinct instance built from the current inputs.
C7_MemoizedOnAllInputs ==
    [][/\ InputsUnchanged => provider' = provider
       /\ ~InputsUnchanged => Rebuilt]_vars

\* C8: from the moment a load fails (missing URL or rejected fetch) until
\* a load completes successfully, mapItems is empty.  lastSettled is the
\* promise settled last, so it is a rejected one exactly in those states.
C8_FailedLoadShowsNothing ==
    (lastSettled # 0 /\ calls[lastSettled].status = "rejected")
    => mapItems = <<>>

\* ---- the load state of the item ----
\* Unloaded: not loading, no payload.  Loading: isLoading with a fetch in
\* flight.  Loaded: not loading, payload present.  LoadFailed: isLoading
\* with no fetch in flight, i.e. every call so far has settled and the one
\* that raised the flag was rejected.
loadState ==
    IF isLoading
    THEN (IF Pending # {} THEN "Loading" ELSE "LoadFailed")
    ELSE (IF capabilities # Undefined THEN "Loaded" ELSE "Unloaded")

SpecTransitions ==
    {<<"Unloaded", "Loading">>, <<"Loading", "Loaded">>,
     <<"Loading", "LoadFailed">>, <<"LoadFailed", "Loading">>}

CodeTransitions ==
    SpecTransitions \cup
    {<<"Loaded", "Loading">>, <<"Unloaded", "LoadFailed">>,
     <<"Loaded", "LoadFailed">>}

C10_RetryLoadsCleanly ==
    [][\A i \in 1..MaxLoads :
          (/\ ResolvesNow(i)
           /\ Pending = {i}
           /\ \E j \in 1..(i - 1) : calls[j].status = "rejected")
          => /\ isLoading' = FALSE
             /\ capabilities' # Undefined
             /\ capabilities' = calls'[i].fetched
             /\ Len(mapItems') = 1
             /\ BuiltFromCurrent']_vars

C10_Witness ==
    /\ Len(calls) = 2
    /\ calls[1].status = "rejected"
    /\ calls[1].error = ConfigurationError
    /\ calls[2].status = "resolved"
    /\ lastSettled = 2
    /\ ~isLoading
    /\ capabilities = calls[2].fetched
    /\ Len(mapItems) = 1

\* C11: every failure of the stratum's load, the missing URL or a rejected
\* fetch, leaves the promise held by the caller of loadMetadata() or
\* loadData() rejected with the error; a failed load never resolves, and a
\* promise is resolved only when its fetch was fulfilled.
C11_FailuresReachCaller ==
    \A i \in 1..Len(calls) :
        /\ (calls[i].fetch \in {"none", "rejected"}) =>
              (calls[i].status = "rejected" /\ calls[i].error # Undefined)
        /\ calls[i].status = "resolved" => calls[i].fetch = "fulfilled"
        /\ callers[i] \in {"loadMetadata", "loadData"}

\* loadData() failed on the missing URL and loadMetadata() on a rejected
\* fetch, or the other way round.
C11_Witness ==
    /\ Len(calls) >= 2
    /\ \E i, j \in 1..Len(calls) :
          /\ callers[i] = "loadData"
          /\ callers[j] = "loadMetadata"
          /\ {calls[i].fetch, calls[j].fetch} = {"none", "rejected"}
          /\ calls[i].status = "rejected"
          /\ calls[j].status = "rejected"

\* C19: whenever a load started by loadCapabilities() has not settled,
\* isLoading is true and mapItems is therefore empty; the completion of one
\* of two overlapping loads does not clear isLoading.
C19_InFlightMeansLoading ==
    Pending # {} => (isLoading /\ mapItems = <<>>)

\* ---- the descriptors of mapItems ----
ShowFlag == IF show # Undefined THEN show.bool ELSE TRUE

\* C13: mapItems holds 0 to 2 descriptors: first the current-time one, with
\* the item's opacity and show flag (true when show is unset), then a
\* next-time one only when nextDiscreteTime is defined, with opacity 0;
\* each wraps the memoized layer object of its time key.
C13_MapItemsDescriptors ==
    /\ Len(mapItems) \in 0..2
    /\ Len(mapItems) >= 1 =>
          /\ mapItems[1].imageryProvider = provider
          /\ provider # Undefined
          /\ mapItems[1].alpha = opacity
          /\ mapItems[1].show = ShowFlag
    /\ Len(mapItems) = 2 =>
          /\ Truthy(nextDiscreteTime)
          /\ mapItems[2].alpha = 0
          /\ mapItems[2].imageryProvider = transformerCache[nextDiscreteTime].value
    /\ ~Truthy(nextDiscreteTime) => Len(mapItems) <= 1
    /\ (provider # Undefined) => Len(mapItems) >= 1

C13_Witness ==
    /\ Len(mapItems) = 1
    /\ opacity = 3
    /\ show = Bool(FALSE)
    /\ mapItems[1].alpha = 3
    /\ mapItems[1].show = FALSE
    /\ Resolved # {}

\* C20: a step that changes only opacity or show, with url, layers, payload
\* and isLoading unchanged, keeps the identical imageryProvider instance in
\* the current descriptor, whose alpha and show take the new values.
C20_OpacityShowKeepProvider ==
    [][(/\ (opacity' # opacity \/ show' # show)
        /\ InputsUnchanged
        /\ mapItems # <<>>)
       => /\ Len(mapItems') = 1
          /\ mapItems'[1].imageryProvider = mapItems[1].imageryProvider
          /\ mapItems'[1].alpha = opacity'
          /\ mapItems'[1].show = ShowFlag']_vars

\* A loaded item whose opacity and show were changed after its layer object
\* was built: the object is still the last one built.
C20_Witness ==
    /\ Resolved # {}
    /\ Len(mapItems) = 1
    /\ opacity = 3
    /\ show = Undefined
    /\ mapItems[1].show = TRUE
    /\ provider.rectangle # Undefined
    /\ provider.id = nextInstance - 1

\* ---- the derived properties ----
\* The layer of that name in the current payload, if any.
Found(n) ==
    capabilities # Undefined /\ \E l \in DocLayers(capabilities.doc) : l.Name = n
TheLayer(n) == CHOOSE l \in DocLayers(capabilities.doc) : l.Name = n

PayloadAbsentOrPartial ==
    \/ capabilities = Undefined
    \/ \E i \in 1..Len(layersArray) : ~Found(layersArray[i])

\* C12: with the payload undefined or lacking some selected layers, no
\* derived property raises: rectangle is undefined or a rectangle,
\* legendUrls and info are lists, availableStyles holds a list per layer,
\* isGeoServer is undefined or a boolean.
C12_DerivedNeverRaise ==
    PayloadAbsentOrPartial =>
        /\ (rectangle = Undefined \/ "rect" \in DOMAIN rectangle)
        /\ IsArray(legendUrls)
        /\ IsArray(info)
        /\ \A k \in 1..Len(availableStyles) : IsArray(availableStyles[k].styles)
        /\ isGeoServer \in {Undefined, Bool(TRUE), Bool(FALSE)}

\* The value of a rectangle, whatever payload object it was read from.
RectValue(r) == IF r = Undefined THEN Undefined ELSE r.rect

SameDerived(p, q) ==
    /\ RectValue(rectangleOf(p, layers)) = RectValue(rectangleOf(q, layers))
    /\ legendUrlsOf(p, layers) = legendUrlsOf(q, layers)
    /\ availableStylesOf(p, layers) = availableStylesOf(q, layers)
    /\ infoOf(p, layers) = infoOf(q, layers)
    /\ isGeoServerOf(p) = isGeoServerOf(q)

\* C14: after a load that fetched the same document as an earlier
\* successful load, with the url and layers as they are, the derived
\* properties (rectangle, legendUrls, styles, info, isGeoServer) equal the
\* ones the earlier load's payload gives.
C14_LoadIdempotent ==
    (Pending = {} /\ lastSettled \in Resolved) =>
        \A i \in Resolved :
            calls[i].fetched.doc = calls[lastSettled].fetched.doc =>
                /\ capabilities # Undefined
                /\ capabilities.doc = calls[i].fetched.doc
                /\ SameDerived(capabilities, calls[i].fetched)

C14_Witness ==
    /\ Len(calls) = 2
    /\ Resolved = {1, 2}
    /\ lastSettled = 2
    /\ calls[1].fetched.doc = "d1"
    /\ calls[2].fetched.doc = "d1"
    /\ layers = Str(<<"a", ",", "b">>)
    /\ rectangle # Undefined
    /\ Len(legendUrls.arr) = 3

\* The first legend of a style, and whether it carries a URL.
FirstLegend(style) ==
    IF IsArray(style.LegendURL)
    THEN (IF style.LegendURL.arr = <<>> THEN Undefined ELSE style.LegendURL.arr[1])
    ELSE style.LegendURL

CarriesLegend(style) ==
    /\ FirstLegend(style) # Undefined
    /\ FirstLegend(style).OnlineResource # Undefined
    /\ FirstLegend(style).OnlineResource.href.str # <<>>

ExpectedLegendsOf(n) ==
    IF ~Found(n) THEN <<>>
    ELSE LET styles == getInheritedStyles(capabilities.doc, TheLayer(n))
             carrying == SelectSeq(styles, CarriesLegend)
         IN [j \in 1..Len(carrying) |->
               [url |-> decodeURIComponent(FirstLegend(carrying[j]).OnlineResource.href),
                mimeType |-> FirstLegend(carrying[j]).Format]]

RECURSIVE ExpectedLegends(_)
ExpectedLegends(names) ==
    IF names = <<>> THEN <<>>
    ELSE ExpectedLegendsOf(Head(names)) \o ExpectedLegends(Tail(names))

\* C15: legendUrls is the list, over the layers of layersArray in order and
\* over each layer's inherited styles in order, of the legend URLs of the
\* styles that carry one; styles without a legend URL and layers not found
\* in the payload contribute nothing.
C15_LegendUrlsExact ==
    legendUrls = Arr(ExpectedLegends(layersArray))

\* The Data Description sections of info.
DataDescriptions ==
    {k \in 1..Len(info.arr) : Head(info.arr[k].name.str) = "Data Description"}

Qualifies(n) ==
    /\ Found(n)
    /\ TheLayer(n).Abstract # Undefined
    /\ TheLayer(n).Abstract.str # <<>>
    /\ \A k \in 1..Len(abstractsToIgnore) :
          ~Occurs(abstractsToIgnore[k], TheLayer(n).Abstract)

HasDataDescription(n) ==
    /\ Found(n)
    /\ \E k \in DataDescriptions :
          /\ info.arr[k].content = TheLayer(n).Abstract
          /\ (Len(info.arr[k].name.str) > 1 =>
                info.arr[k].name.str = <<"Data Description", " - ">> \o TheLayer(n).Title.str)

\* C16: info has a Data Description section for a selected layer exactly
\* when the layer is found in the payload, has a non-empty Abstract, and the
\* Abstract contains none of abstractsToIgnore; no section carries an
\* abstract containing 'A compliant implementation of WMS'.
C16_DataDescriptionFilter ==
    /\ IsArray(info)
    /\ \A i \in 1..Len(layersArray) :
          Qualifies(layersArray[i]) <=> HasDataDescription(layersArray[i])
    /\ \A k \in DataDescriptions :
          /\ \E i \in 1..Len(layersArray) :
                /\ Qualifies(layersArray[i])
                /\ info.arr[k].content = TheLayer(layersArray[i]).Abstract
          /\ ~Occurs(Str(<<"A compliant implementation of WMS">>), info.arr[k].content)

\* Layers a and b of d1 selected: a is described, b (stock abstract) is not.
C16_Witness ==
    /\ capabilities # Undefined
    /\ capabilities.doc = "d1"
    /\ layers = Str(<<"a", ",", "b">>)
    /\ Cardinality(DataDescriptions) = 1
    /\ Qualifies(Str(<<"a">>))
    /\ ~Qualifies(Str(<<"b">>))

\* The rectangle read from a layer of the current payload.
RectOf(l) ==
    IF l.bbox = 0 THEN Undefined
    ELSE [rect |-> l.bbox, payload |-> capabilities.load, of |-> l.Name]

\* C17: rectangle is the rectangle of the first layer of layersArray as
\* found in the payload; no other selected layer affects it.
C17_FirstLayerRectangle ==
    rectangle =
        (IF Len(layersArray) > 0 /\ Found(layersArray[1])
         THEN RectOf(TheLayer(layersArray[1]))
         ELSE Undefined)

\* C17 amended: rectangle is the rectangle of the first layer of
\* layersArray that is found in the payload (layers listed before it that
\* the payload lacks are skipped), undefined if none is found or that layer
\* has no bounding box; the layers after it never affect it.
C17_FirstFoundLayerRectangle ==
    rectangle =
        (IF \E i \in 1..Len(layersArray) : Found(layersArray[i])
         THEN RectOf(TheLayer(layersArray[
                  CHOOSE i \in 1..Len(layersArray) :
                      /\ Found(layersArray[i])
                      /\ \A j \in 1..(i - 1) : ~Found(layersArray[j])]))
         ELSE Undefined)

\* Layers z and b selected on d1: z is not found, the rectangle is b's.
C17_Witness ==
    /\ capabilities # Undefined
    /\ capabilities.doc = "d1"
    /\ layers = Str(<<"z", ",", "b">>)
    /\ rectangle # Undefined
    /\ rectangle.of = Str(<<"b">>)

\* The names of a schema.
Names(schema) == {schema[k] : k \in 1..Len(schema)}

NoDuplicates(schema) ==
    \A j, k \in 1..Len(schema) : schema[j] = schema[k] => j = k

IsPrefix(p, q) == Len(p) <= Len(q) /\ SubSeq(q, 1, Len(p)) = p

\* The flattened lists a stack of schema fragments gives under every way
\* of grouping neighbouring fragments.
RECURSIVE Groupings(_)
Groupings(fragments) ==
    IF Len(fragments) = 1 THEN {fragments[1]}
    ELSE UNION {{mix(x, y) :
                    x \in Groupings(SubSeq(fragments, 1, k)),
                    y \in Groupings(SubSeq(fragments, k + 1, Len(fragments)))} :
                k \in 1..(Len(fragments) - 1)}

Stack == <<Base>> \o [k \in 1..Len(applied) |-> LayerTraits(applied[k])]

\* C18: mixGroupTraits(Base) recognizes the traits of Base plus isOpen and
\* members, keeps the base's traits first and in order, puts isOpen then
\* members after them (each once), and a stack of mixin layers gives the
\* same flattened trait list under every grouping of the layers.
C18_SchemaComposition ==
    /\ [][applied' = Append(applied, "mixGroupTraits") =>
            /\ IsPrefix(traits, traits')
            /\ Names(traits') = Names(traits) \cup {"isOpen", "members"}
            /\ NoDuplicates(traits')
            /\ (Names(traits) \cap {"isOpen", "members"} = {} =>
                   traits' = traits \o <<"isOpen", "members">>)]_vars
    /\ [](Groupings(Stack) = {traits})

\* Url traits, then group traits, then opacity traits over the base
\* <<name>>.
C18_Witness ==
    /\ Base = <<"name">>
    /\ applied = <<"mixUrlTraits", "mixGroupTraits", "mixOpacityTraits">>
    /\ traits = <<"name", "url", "isOpen", "members", "opacity">>

\* C21: after every componentWillReceiveProps the view state does not have
\* mobileView = nowViewing with an empty now-viewing list (the step that
\* finds it so switches mobileView to null and closes the modal), and after
\* onClearMobileUI the view is null, the modal is closed, and the render
\* shows it not open, with no content and no Done button.
C21_ModalNeverShowsEmptyNowViewing ==
    /\ [][lastMethod' = "componentWillReceiveProps" =>
            /\ ~(mobileView' = mobileViewOptions.nowViewing /\ nowViewingItems' = 0)
            /\ (mobileView = mobileViewOptions.nowViewing /\ nowViewingItems = 0 =>
                   /\ mobileView' = Null
                   /\ modalVisible' = FALSE
                   /\ ~rendered'.isOpen)]_vars
    /\ [][lastMethod' = "onClearMobileUI" =>
            /\ mobileView' = Null
            /\ modalVisible' = FALSE
            /\ rendered' = [isOpen |-> FALSE, content |-> Null,
                            doneButton |-> FALSE]]_vars

\* The last item was removed while the now-viewing view was open, and
\* componentWillReceiveProps has closed the modal.
C21_Witness ==
    /\ lastMethod = "componentWillReceiveProps"
    /\ nowViewingItems = 0
    /\ mobileView = Null
    /\ ~modalVisible
    /\ rendered.content = Null
====
